---- MODULE Spec2Model ----
(***************************************************************************)
(* A model of the Kademlia node of jevankovich/dht:                        *)
(*   - the k-bucket routing table       (src/src/kad/kbucket.rs)           *)
(*   - the protocol engine Kad          (src/src/kad/mod.rs)               *)
(*   - the three-thread engine Dht      (src/src/lib.rs)                   *)
(* Keys are bit strings of KEY_BITS bits; the program's KEY_BITS = 256 and *)
(* K = 20 are scaled down so that every table over the whole key space can *)
(* be enumerated.  Every formula below is stated for general K, KEY_BITS.  *)
(***************************************************************************)
EXTENDS Integers, Sequences, FiniteSets, TLC

\* Scaled-down stand-in for kbucket.rs:4  (pub const K: usize = 20).
K == 2
\* Scaled-down stand-in for kbucket.rs:5  (pub const KEY_BITS: usize = 256).
KEY_BITS == 3
\* The range of the index array's element type u8 (kbucket.rs:62).
U8_RANGE == 256
\* Bound on the insert calls of the runs that keep the insertion order.
MaxInserts == 4
\* Bound on the commands an owner puts on its command channel by bootstrap.
MaxCmds == 2
\* Bound on the datagrams that outsiders send to the nodes.
MaxInject == 2

VARIABLES
    \* ---- the routing table driven directly (kbucket.rs) ----
    me,             \* the id passed as `me` to every insert
    known_peers,    \* the KBuckets value: indices, next_to_split, k_buckets
    before,         \* history: known_peers when the last insert was called
    arg,            \* history: the contact passed to the last insert
    ret,            \* history: what the last insert returned
    accepted,       \* history: ids whose insert has returned Ok
    first_in,       \* history: those ids in the order of their first Ok
    calls,          \* history: number of insert calls made
    seen_order,     \* history: those ids in the order of their last Ok
    pc,             \* the statement of insert that runs next, or "idle"
    old_bucket,     \* the contacts of a split bucket still to be re-inserted
    splits,         \* history: number of splits made by the running insert
    \* ---- the nodes started by Dht::start (lib.rs), one per address ----
    kad,            \* kad[n]: the Kad value, its id and known_peers
    cmd_chan,       \* cmd_chan[n]: the unbounded command channel
    send_chan,      \* send_chan[n]: the unbounded outbound channel
    socket,         \* socket[n]: datagrams delivered to n's socket, unread
    recver,         \* recver[n]: the receiver thread and the packet it holds
    worker,         \* worker[n]: the worker thread
    sender,         \* sender[n]: the sender thread
    owner,          \* owner[n]: the thread that owns the Dht handle
    enqueued,       \* history: commands accepted by cmd_chan[n], in order
    handled,        \* history: commands handled by n's worker, in order
    queued,         \* history: (packet, address) pairs put on send_chan[n]
    injected,       \* history: number of datagrams sent by outsiders
    read,           \* history: datagrams n's receiver read, in order
    delivered,      \* history: (packet, address) pairs n's worker took
    sent            \* history: (packet, address) pairs n's sender sent

tableVars == <<me, known_peers, before, arg, ret, accepted, first_in, calls,
               seen_order, pc, old_bucket, splits>>
nodeVars == <<kad, cmd_chan, send_chan, socket, recver, worker, sender, owner,
              enqueued, handled, queued, injected, read, delivered, sent>>
vars == <<me, known_peers, before, arg, ret, accepted, first_in, calls,
          seen_order, pc, old_bucket, splits,
          kad, cmd_chan, send_chan, socket, recver, worker, sender, owner,
          enqueued, handled, queued, injected, read, delivered, sent>>

----------------------------------------------------------------------------
\* NodeID (kbucket.rs:8-11): a key is its bits, most significant first.

Bit == {0, 1}
NodeID == [1..KEY_BITS -> Bit]

\* NodeID::leading_zeros (kbucket.rs:14-23): add up the leading zeros of
\* each unit of the key, stopping after the first unit that is not all zero.
RECURSIVE leading_zeros_from(_, _)
leading_zeros_from(id, i) ==
    IF i > KEY_BITS THEN 0
    ELSE IF id[i] # 0 THEN 0
    ELSE 1 + leading_zeros_from(id, i + 1)

leading_zeros(id) == leading_zeros_from(id, 1)

\* impl BitXor for NodeID (kbucket.rs:26-42): position-wise exclusive or.
BitXor(a, b) == [i \in 1..KEY_BITS |-> IF a[i] = b[i] THEN 0 ELSE 1]

\* The distance class of `id` seen from `self_id` (kbucket.rs:91, 147).
Class(self_id, id) == leading_zeros(BitXor(self_id, id))

\* Contact (kbucket.rs:44-48) and its equality, by id only (kbucket.rs:50-54).
Addr == {"a1", "a2"}
MkContact(id, addr) == [id |-> id, addr |-> addr]
ContactEq(c, d) == c.id = d.id

\* KBucket (kbucket.rs:56-59).
MkBucket(can_split) == [can_split |-> can_split, contacts |-> <<>>]

\* KBuckets::new (kbucket.rs:68-77).
NewKBuckets ==
    [indices       |-> [c \in 0..(KEY_BITS - 1) |-> 0],
     next_to_split |-> 0,
     k_buckets     |-> <<MkBucket(TRUE)>>]

----------------------------------------------------------------------------
\* Vec and VecDeque operations used by insert.

\* VecDeque::remove(i): the sequence without its i-th element.
RemoveAt(s, i) == SubSeq(s, 1, i - 1) \o SubSeq(s, i + 1, Len(s))

\* Mutant of SwapRemoveFirst: Vec::remove(0), which shifts the rest down.
RemoveFirstStable(s) == Tail(s)

\* Vec::swap_remove(0): the last element takes the place of the first.
SwapRemoveFirst(s) ==
    IF Len(s) = 1 THEN <<>>
    ELSE <<s[Len(s)]>> \o SubSeq(s, 2, Len(s) - 1)

\* Mutant of FindContact: a comparison that never matches.
FindNothing(cs, contact) == 0

\* The first position of `contact` in `cs` (Iterator::find), 0 when absent.
FindContact(cs, contact) ==
    IF \A i \in 1..Len(cs) : ~ContactEq(contact, cs[i]) THEN 0
    ELSE CHOOSE i \in 1..Len(cs) :
            /\ ContactEq(contact, cs[i])
            /\ \A j \in 1..(i - 1) : ~ContactEq(contact, cs[j])

\* Mutant of MoveToBack: the stored contact is put at the front.
MoveToFront(cs, i, contact) == <<cs[i]>> \o RemoveAt(cs, i)

\* The move-to-back of an already stored contact (kbucket.rs:102-103): the
\* element taken out of the bucket is the one pushed back.
MoveToBack(cs, i, contact) == Append(RemoveAt(cs, i), cs[i])

\* Mutant of insert_unchecked: the class is not looked up again, every
\* contact goes back to bucket 0.
insert_unchecked_first(self, self_id, contact) ==
    [self EXCEPT !.k_buckets[1].contacts = Append(@, contact)]

\* KBuckets::insert_unchecked (kbucket.rs:146-150).
insert_unchecked(self, self_id, contact) ==
    [self EXCEPT !.k_buckets[self.indices[Class(self_id, contact.id)] + 1]
                    .contacts = Append(@, contact)]

\* Mutant of Redistribute: the old contacts are re-inserted newest first.
RECURSIVE RedistributeReversed(_, _, _)
RedistributeReversed(self, self_id, cs) ==
    IF cs = <<>> THEN self
    ELSE RedistributeReversed(insert_unchecked(self, self_id, cs[Len(cs)]),
                              self_id, SubSeq(cs, 1, Len(cs) - 1))

\* for contact in old_bucket.contacts.drain(..) (kbucket.rs:130-132).
RECURSIVE Redistribute(_, _, _)
Redistribute(self, self_id, cs) ==
    IF cs = <<>> THEN self
    ELSE Redistribute(insert_unchecked(self, self_id, Head(cs)), self_id, Tail(cs))

\* Mutant of CarveBucket: the index entry is set to the bucket count, not to
\* the last position.
CarveBucketPastEnd(self) ==
    [indices       |-> [self.indices EXCEPT
                          ![self.next_to_split] =
                              Len(SwapRemoveFirst(self.k_buckets
                                    \o <<MkBucket(FALSE), MkBucket(TRUE)>>))
                                  % U8_RANGE],
     next_to_split |-> self.next_to_split + 1,
     k_buckets     |-> SwapRemoveFirst(self.k_buckets
                            \o <<MkBucket(FALSE), MkBucket(TRUE)>>)]

\* The first half of the split of bucket 0 (kbucket.rs:110-128): two buckets
\* pushed, bucket 0 swap-removed, the index entry of the class next_to_split
\* set to the last position, the cursor advanced.
CarveBucket(self) ==
    [indices       |-> [self.indices EXCEPT
                          ![self.next_to_split] =
                              (Len(SwapRemoveFirst(self.k_buckets
                                    \o <<MkBucket(FALSE), MkBucket(TRUE)>>)) - 1)
                                  % U8_RANGE],
     next_to_split |-> self.next_to_split + 1,
     k_buckets     |-> SwapRemoveFirst(self.k_buckets
                            \o <<MkBucket(FALSE), MkBucket(TRUE)>>)]

\* The split of bucket 0 (kbucket.rs:110-132): the carve, then the contacts
\* of the removed bucket redistributed.
SplitFirst(self, self_id) ==
    Redistribute(CarveBucket(self), self_id, self.k_buckets[1].contacts)

\* Mutant of IsFull: the capacity test is off by one.
IsOverFull(cs) == Len(cs) = K + 1

\* The capacity test of a bucket (kbucket.rs:108).
IsFull(cs) == Len(cs) = K

\* Mutant of EvictionCandidate: the most recently seen contact.
NewestContact(cs) == cs[Len(cs)]

\* The contact a full bucket that cannot split hands back (kbucket.rs:138).
EvictionCandidate(cs) == cs[1]

\* Results of insert: Ok(()), Err(contact), or the failed assertion.
Ok == [tag |-> "Ok"]
Err(c) == [tag |-> "Err", contact |-> c]
Panic == [tag |-> "Panic"]

\* KBuckets::insert (kbucket.rs:79-144).  insert_into is its body from line
\* 95 on, with `bucket` the index read at line 93.
RECURSIVE insert(_, _, _)
insert_into(self, self_id, contact, bucket) ==
    IF FindContact(self.k_buckets[bucket + 1].contacts, contact) # 0
    THEN [table |-> [self EXCEPT !.k_buckets[bucket + 1].contacts =
                        MoveToBack(@, FindContact(@, contact), contact)],
          ret   |-> Ok]
    ELSE IF IsFull(self.k_buckets[bucket + 1].contacts)
    THEN IF self.k_buckets[bucket + 1].can_split
         THEN insert(SplitFirst(self, self_id), self_id, contact)
         ELSE [table |-> self,
               ret   |-> Err(EvictionCandidate(self.k_buckets[bucket + 1].contacts))]
    ELSE [table |-> [self EXCEPT !.k_buckets[bucket + 1].contacts =
                        Append(@, contact)],
          ret   |-> Ok]

insert(self, self_id, contact) ==
    IF ~(Class(self_id, contact.id) < KEY_BITS)
    THEN [table |-> self, ret |-> Panic]
    ELSE insert_into(self, self_id, contact,
                     self.indices[Class(self_id, contact.id)])

----------------------------------------------------------------------------
\* The routing table driven directly: any sequence of insert calls with
\* contacts other than the node's own id.

\* The ids used as `me`: the all-zero key of the tests (kbucket.rs:159-161,
\* 204-206) and the all-one key.
ZeroID == [i \in 1..KEY_BITS |-> 0]
OnesID == [i \in 1..KEY_BITS |-> 1]
SelfIDs == {ZeroID, OnesID}

\* The contacts offered to insert.  insert reads an id only through its
\* distance class and through equality with stored ids, and a call involves
\* at most the K contacts of one bucket and the new one, so K + 1 ids of each
\* class (all of them where the class has fewer) cover every case.
\* Rank(x) is the number the bits of x after its first 1 bit spell.
RECURSIVE BitsValue(_, _)
BitsValue(x, i) ==
    IF i > KEY_BITS THEN 0
    ELSE x[i] * 2 ^ (KEY_BITS - i) + BitsValue(x, i + 1)

Rank(x) == BitsValue(x, leading_zeros(x) + 2)

PeerIDs(self_id) ==
    {id \in NodeID \ {self_id} : Rank(BitXor(self_id, id)) <= K}

NoContact == [id |-> <<>>, addr |-> "none"]
NoRet == [tag |-> "None"]

\* Ids stored in the table, bucket by bucket.
StoredIn(b) == {b.contacts[i].id : i \in 1..Len(b.contacts)}
Stored(tbl) == UNION {StoredIn(tbl.k_buckets[j]) : j \in 1..Len(tbl.k_buckets)}

\* No node is started while the table is driven directly.
NoNodes ==
    /\ kad = <<>>
    /\ cmd_chan = <<>>
    /\ send_chan = <<>>
    /\ socket = <<>>
    /\ recver = <<>>
    /\ worker = <<>>
    /\ sender = <<>>
    /\ owner = <<>>
    /\ enqueued = <<>>
    /\ handled = <<>>
    /\ queued = <<>>
    /\ injected = 0
    /\ read = <<>>
    /\ delivered = <<>>
    /\ sent = <<>>

InitTable ==
    /\ me \in SelfIDs
    /\ known_peers = NewKBuckets
    /\ before = NewKBuckets
    /\ arg = NoContact
    /\ ret = NoRet
    /\ accepted = {}
    /\ first_in = <<>>
    /\ calls = 0
    /\ seen_order = <<>>
    /\ pc = "idle"
    /\ old_bucket = <<>>
    /\ splits = 0
    /\ NoNodes

\* One call insert(me, contact) with contact.addr drawn from `addrs`.
InsertCall(addrs) ==
    \E id \in PeerIDs(me), a \in addrs :
        LET contact == MkContact(id, a)
            r       == insert(known_peers, me, contact)
        IN  /\ known_peers' = r.table
            /\ before' = known_peers
            /\ ret' = r.ret
            /\ arg' = contact
            /\ accepted' = IF r.ret = Ok THEN accepted \cup {id} ELSE accepted
            /\ UNCHANGED <<me, nodeVars, pc, old_bucket, splits>>

\* Any sequence of insert calls, all contacts at one address.
Insert ==
    /\ InsertCall({"a1"})
    /\ UNCHANGED <<first_in, calls, seen_order>>

Next == Insert

Spec == InitTable /\ [][Next]_vars

\* Insert calls whose contacts come from different addresses.
InsertAddr ==
    /\ InsertCall(Addr)
    /\ UNCHANGED <<first_in, calls, seen_order>>

NextAddr == InsertAddr

SpecAddr == InitTable /\ [][NextAddr]_vars

\* `order` with `id` moved, or added, to its end.
Touch(order, id) == Append(SelectSeq(order, LAMBDA x : x # id), id)

\* At most MaxInserts insert calls, with the order of first acceptance and
\* the order of last acceptance kept.
InsertOrdered ==
    /\ calls < MaxInserts
    /\ InsertCall({"a1"})
    /\ calls' = calls + 1
    /\ first_in' = IF ret' = Ok /\ arg'.id \notin accepted
                   THEN Append(first_in, arg'.id) ELSE first_in
    /\ seen_order' = IF ret' = Ok THEN Touch(seen_order, arg'.id)
                     ELSE seen_order

NextOrdered == InsertOrdered

SpecOrdered == InitTable /\ [][NextOrdered]_vars

----------------------------------------------------------------------------
\* One insert call run statement by statement, so that the table can be
\* looked at in the middle of a split: between the carving of bucket 0 and
\* the retry, while insert_unchecked puts the old contacts back one by one.

\* An index into indices or k_buckets that is out of bounds panics.
IndexPanic == [tag |-> "IndexPanic"]

\* The bucket index read at kbucket.rs:93 and 148 exists.
InBounds(self, class) == self.indices[class] + 1 \in 1..Len(self.k_buckets)

\* insert takes the split branch (kbucket.rs:96-109) for `contact`, whose
\* class maps to `bucket`.
TakesSplit(self, contact, bucket) ==
    /\ FindContact(self.k_buckets[bucket + 1].contacts, contact) = 0
    /\ IsFull(self.k_buckets[bucket + 1].contacts)
    /\ self.k_buckets[bucket + 1].can_split

\* The call insert(me, contact).
CallInsert ==
    /\ pc = "idle"
    /\ \E id \in PeerIDs(me) : arg' = MkContact(id, "a1")
    /\ before' = known_peers
    /\ ret' = NoRet
    /\ splits' = 0
    /\ pc' = "lookup"
    /\ UNCHANGED <<me, known_peers, accepted, first_in, calls, seen_order,
                   old_bucket, nodeVars>>

\* insert returns `r` with the table `tbl`.
Return(tbl, r) ==
    /\ known_peers' = tbl
    /\ ret' = r
    /\ accepted' = IF r = Ok THEN accepted \cup {arg.id} ELSE accepted
    /\ pc' = "idle"
    /\ UNCHANGED <<old_bucket, splits>>

\* kbucket.rs:91-128 and 138-143: the lookup, then either a return or the
\* carving of bucket 0, whose contacts wait to be re-inserted.
LookupStep ==
    /\ pc = "lookup"
    /\ IF ~(Class(me, arg.id) < KEY_BITS)
       THEN Return(known_peers, Panic)
       ELSE IF ~InBounds(known_peers, Class(me, arg.id))
       THEN Return(known_peers, IndexPanic)
       ELSE IF ~TakesSplit(known_peers, arg,
                           known_peers.indices[Class(me, arg.id)])
       THEN Return(insert_into(known_peers, me, arg,
                        known_peers.indices[Class(me, arg.id)]).table,
                   insert_into(known_peers, me, arg,
                        known_peers.indices[Class(me, arg.id)]).ret)
       ELSE IF ~(known_peers.next_to_split < KEY_BITS)
       THEN Return(known_peers, IndexPanic)
       ELSE /\ known_peers' = CarveBucket(known_peers)
            /\ old_bucket' = known_peers.k_buckets[1].contacts
            /\ splits' = splits + 1
            /\ pc' = "drain"
            /\ UNCHANGED <<ret, accepted>>
    /\ UNCHANGED <<me, before, arg, first_in, calls, seen_order, nodeVars>>

\* kbucket.rs:130-132: one turn of the drain loop, a call of insert_unchecked.
DrainStep ==
    /\ pc = "drain"
    /\ old_bucket # <<>>
    /\ IF InBounds(known_peers, Class(me, Head(old_bucket).id))
       THEN /\ known_peers' = insert_unchecked(known_peers, me, Head(old_bucket))
            /\ old_bucket' = Tail(old_bucket)
            /\ UNCHANGED <<ret, pc>>
       ELSE /\ ret' = IndexPanic
            /\ pc' = "idle"
            /\ UNCHANGED <<known_peers, old_bucket>>
    /\ UNCHANGED <<me, before, arg, accepted, first_in, calls, seen_order,
                   splits, nodeVars>>

\* kbucket.rs:136: the retry, return self.insert(me, contact).
RetryStep ==
    /\ pc = "drain"
    /\ old_bucket = <<>>
    /\ pc' = "lookup"
    /\ UNCHANGED <<me, known_peers, before, arg, ret, accepted, first_in,
                   calls, seen_order, old_bucket, splits, nodeVars>>

NextSteps ==
    \/ CallInsert
    \/ LookupStep
    \/ DrainStep
    \/ RetryStep

SpecSteps == InitTable /\ [][NextSteps]_vars

\* A call that has started goes on: the caller's thread is scheduled.
StepsFair ==
    /\ WF_vars(LookupStep)
    /\ WF_vars(DrainStep)
    /\ WF_vars(RetryStep)

SpecStepsFair == SpecSteps /\ StepsFair

----------------------------------------------------------------------------
\* The node: Kad (mod.rs) run by the three threads of Dht::start (lib.rs).

\* A node is named by the address its socket is bound to (lib.rs:29-32);
\* Outsider is an address no node is bound to.
Nodes == Addr
Outsider == "ext"

\* Packet (mod.rs:26-31), Payload (mod.rs:11-15), Command (mod.rs:33-37).
MkPacket(id, seq_num, payload) ==
    [id |-> id, seq_num |-> seq_num, payload |-> payload]
Shutdown == [tag |-> "Shutdown"]
Ping(peer) == [tag |-> "Ping", peer |-> peer]

\* serialize_into (lib.rs:48): the id, the sequence number, the variant tag.
Encode(pack) ==
    [i \in 1..(KEY_BITS + 2) |->
        IF i <= KEY_BITS THEN pack.id[i]
        ELSE IF i = KEY_BITS + 1 THEN pack.seq_num
        ELSE IF pack.payload = "Ping" THEN 0 ELSE 1]

\* deserialize (lib.rs:59): fails on a datagram of another length or with
\* an unknown variant tag.
Decodes(data) ==
    /\ Len(data) = KEY_BITS + 2
    /\ data[KEY_BITS + 2] \in {0, 1}
Decode(data) ==
    MkPacket([i \in 1..KEY_BITS |-> data[i]], data[KEY_BITS + 1],
             IF data[KEY_BITS + 2] = 0 THEN "Ping" ELSE "Pong")

\* Kad::handle_command (mod.rs:82-99): the pairs it puts on the outbound
\* channel and the boolean it returns.
handle_command_out(k, command) ==
    IF command.tag = "Shutdown" THEN <<>>
    ELSE <<[pack |-> MkPacket(k.id, 0, "Ping"), peer |-> command.peer]>>
handle_command(k, command) ==
    IF command.tag = "Shutdown" THEN FALSE ELSE TRUE

\* The worker's use of that boolean (lib.rs:72-74): if it is true, break.
WorkerBreaks(returned) == returned

\* Kad::handle_packet (mod.rs:55-80): the insert, whose Err is dropped by
\* .ok(), and the Pong that answers a Ping.
handle_packet_insert(k, pack, peer) ==
    insert(k.known_peers, k.id, MkContact(pack.id, peer))
handle_packet_out(k, pack, peer) ==
    IF pack.payload = "Ping"
    THEN <<[pack |-> MkPacket(k.id, pack.seq_num, "Pong"), peer |-> peer]>>
    ELSE <<>>

\* The ids rand::random() gives the two nodes (mod.rs:49): distinct, either
\* differing in the first bit or only in the last.
NearID == [i \in 1..KEY_BITS |-> IF i = KEY_BITS THEN 1 ELSE 0]
StrangerID == [i \in 1..KEY_BITS |-> IF i = 1 THEN 1 ELSE 0]
NodeIdChoices ==
    {[n \in Nodes |-> IF n = "a1" THEN ZeroID ELSE other] :
        other \in {OnesID, NearID}}

\* The table is not driven directly while nodes run.
NoTable ==
    /\ me = ZeroID
    /\ known_peers = NewKBuckets
    /\ before = NewKBuckets
    /\ arg = NoContact
    /\ ret = NoRet
    /\ accepted = {}
    /\ first_in = <<>>
    /\ calls = 0
    /\ seen_order = <<>>
    /\ pc = "idle"
    /\ old_bucket = <<>>
    /\ splits = 0

\* Dht::start on every address (lib.rs:28-91).
InitNodes ==
    /\ NoTable
    /\ \E ids \in NodeIdChoices :
          kad = [n \in Nodes |-> [id |-> ids[n], known_peers |-> NewKBuckets]]
    /\ cmd_chan = [n \in Nodes |-> <<>>]
    /\ send_chan = [n \in Nodes |-> <<>>]
    /\ socket = [n \in Nodes |-> <<>>]
    /\ recver = [n \in Nodes |-> [at |-> "recv_from"]]
    /\ worker = [n \in Nodes |-> "select"]
    /\ sender = [n \in Nodes |-> "recv"]
    /\ owner = [n \in Nodes |-> "started"]
    /\ enqueued = [n \in Nodes |-> <<>>]
    /\ handled = [n \in Nodes |-> <<>>]
    /\ queued = [n \in Nodes |-> <<>>]
    /\ injected = 0
    /\ read = [n \in Nodes |-> <<>>]
    /\ delivered = [n \in Nodes |-> <<>>]
    /\ sent = [n \in Nodes |-> <<>>]

\* The worker thread has ended, by break or by panic: cmd_rx, recv_rx and
\* kad, with the only sender of the outbound channel, are dropped.
WorkerGone(n) == worker[n] \in {"done", "panicked"}

\* Dht::bootstrap (lib.rs:93-97) for one peer address: the command is put on
\* the channel; a send error is dropped by .ok().
Bootstrap(n, peer) ==
    /\ owner[n] = "started"
    /\ Len(enqueued[n]) < MaxCmds
    /\ ~WorkerGone(n)
    /\ cmd_chan' = [cmd_chan EXCEPT ![n] = Append(@, Ping(peer))]
    /\ enqueued' = [enqueued EXCEPT ![n] = Append(@, Ping(peer))]
    /\ UNCHANGED <<read, delivered, sent>>
    /\ UNCHANGED <<tableVars, kad, send_chan, socket, recver, worker, sender,
                   owner, handled, queued, injected>>

\* Dht::shutdown, lib.rs:100: command.send(Shutdown).unwrap().
ShutdownSend(n) ==
    /\ owner[n] = "started"
    /\ IF WorkerGone(n)
       THEN /\ owner' = [owner EXCEPT ![n] = "panicked"]
            /\ UNCHANGED <<cmd_chan, enqueued>>
       ELSE /\ owner' = [owner EXCEPT ![n] = "join_worker"]
            /\ cmd_chan' = [cmd_chan EXCEPT ![n] = Append(@, Shutdown)]
            /\ enqueued' = [enqueued EXCEPT ![n] = Append(@, Shutdown)]
    /\ UNCHANGED <<read, delivered, sent>>
    /\ UNCHANGED <<tableVars, kad, send_chan, socket, recver, worker, sender,
                   handled, queued, injected>>

\* Dht::shutdown, lib.rs:101: worker.join().unwrap().
JoinWorker(n) ==
    /\ owner[n] = "join_worker"
    /\ WorkerGone(n)
    /\ owner' = [owner EXCEPT ![n] =
                    IF worker[n] = "done" THEN "join_sender" ELSE "panicked"]
    /\ UNCHANGED <<read, delivered, sent>>
    /\ UNCHANGED <<tableVars, kad, cmd_chan, send_chan, socket, recver, worker,
                   sender, enqueued, handled, queued, injected>>

\* Dht::shutdown, lib.rs:102: sender.join().unwrap().unwrap().
JoinSender(n) ==
    /\ owner[n] = "join_sender"
    /\ sender[n] = "done"
    /\ owner' = [owner EXCEPT ![n] = "returned"]
    /\ UNCHANGED <<read, delivered, sent>>
    /\ UNCHANGED <<tableVars, kad, cmd_chan, send_chan, socket, recver, worker,
                   sender, enqueued, handled, queued, injected>>

\* The worker's select takes a command (lib.rs:71-75).
WorkerCommand(n) ==
    /\ worker[n] = "select"
    /\ cmd_chan[n] # <<>>
    /\ cmd_chan' = [cmd_chan EXCEPT ![n] = Tail(@)]
    /\ handled' = [handled EXCEPT ![n] = Append(@, Head(cmd_chan[n]))]
    /\ send_chan' = [send_chan EXCEPT ![n] =
                        @ \o handle_command_out(kad[n], Head(cmd_chan[n]))]
    /\ queued' = [queued EXCEPT ![n] =
                        @ \o handle_command_out(kad[n], Head(cmd_chan[n]))]
    /\ worker' = [worker EXCEPT ![n] =
                    IF WorkerBreaks(handle_command(kad[n], Head(cmd_chan[n])))
                    THEN "done" ELSE "select"]
    /\ UNCHANGED <<read, delivered, sent>>
    /\ UNCHANGED <<tableVars, kad, socket, recver, sender, owner, enqueued,
                   injected>>

\* The worker's select takes the packet the receiver holds (lib.rs:76-79);
\* the failed assertion of insert ends the thread.
WorkerPacket(n) ==
    /\ worker[n] = "select"
    /\ recver[n].at = "send"
    /\ recver' = [recver EXCEPT ![n] = [at |-> "recv_from"]]
    /\ IF handle_packet_insert(kad[n], recver[n].pack, recver[n].peer).ret = Panic
       THEN /\ worker' = [worker EXCEPT ![n] = "panicked"]
            /\ UNCHANGED <<kad, send_chan, queued>>
       ELSE /\ kad' = [kad EXCEPT ![n].known_peers =
                         handle_packet_insert(kad[n], recver[n].pack,
                                              recver[n].peer).table]
            /\ send_chan' = [send_chan EXCEPT ![n] =
                   @ \o handle_packet_out(kad[n], recver[n].pack, recver[n].peer)]
            /\ queued' = [queued EXCEPT ![n] =
                   @ \o handle_packet_out(kad[n], recver[n].pack, recver[n].peer)]
            /\ UNCHANGED worker
    /\ delivered' = [delivered EXCEPT ![n] =
                        Append(@, [pack |-> recver[n].pack,
                                   peer |-> recver[n].peer])]
    /\ UNCHANGED <<read, sent>>
    /\ UNCHANGED <<tableVars, cmd_chan, socket, sender, owner, enqueued,
                   handled, injected>>

\* Mutant of ReceiverRecv: the receiver reads on while it holds a packet,
\* which the next decoded packet replaces.
ReceiverOverwrites(n) ==
    /\ recver[n].at \in {"recv_from", "send"}
    /\ socket[n] # <<>>
    /\ socket' = [socket EXCEPT ![n] = Tail(@)]
    /\ recver' = [recver EXCEPT ![n] =
                    IF Decodes(Head(socket[n]).data)
                    THEN [at   |-> "send",
                          pack |-> Decode(Head(socket[n]).data),
                          peer |-> Head(socket[n]).from]
                    ELSE [at |-> "recv_from"]]
    /\ read' = [read EXCEPT ![n] = Append(@, Head(socket[n]))]
    /\ UNCHANGED <<delivered, sent>>
    /\ UNCHANGED <<tableVars, kad, cmd_chan, send_chan, worker, sender, owner,
                   enqueued, handled, queued, injected>>

\* The receiver reads one datagram (lib.rs:58-59); one that decodes is held
\* for the capacity-0 channel, any other is skipped.
ReceiverRecv(n) ==
    /\ recver[n].at = "recv_from"
    /\ socket[n] # <<>>
    /\ socket' = [socket EXCEPT ![n] = Tail(@)]
    /\ recver' = [recver EXCEPT ![n] =
                    IF Decodes(Head(socket[n]).data)
                    THEN [at   |-> "send",
                          pack |-> Decode(Head(socket[n]).data),
                          peer |-> Head(socket[n]).from]
                    ELSE [at |-> "recv_from"]]
    /\ read' = [read EXCEPT ![n] = Append(@, Head(socket[n]))]
    /\ UNCHANGED <<delivered, sent>>
    /\ UNCHANGED <<tableVars, kad, cmd_chan, send_chan, worker, sender, owner,
                   enqueued, handled, queued, injected>>

\* recv_tx.send fails once the worker has dropped recv_rx (lib.rs:62-64).
ReceiverEnds(n) ==
    /\ recver[n].at = "send"
    /\ WorkerGone(n)
    /\ recver' = [recver EXCEPT ![n] = [at |-> "done"]]
    /\ UNCHANGED <<read, delivered, sent>>
    /\ UNCHANGED <<tableVars, kad, cmd_chan, send_chan, socket, worker, sender,
                   owner, enqueued, handled, queued, injected>>

\* The sender takes one pair and sends it as a datagram (lib.rs:46-51); a
\* datagram for an address no node is bound to leaves the model.
SenderSend(n) ==
    /\ sender[n] = "recv"
    /\ send_chan[n] # <<>>
    /\ send_chan' = [send_chan EXCEPT ![n] = Tail(@)]
    /\ socket' = IF Head(send_chan[n]).peer \in Nodes
                 THEN [socket EXCEPT ![Head(send_chan[n]).peer] =
                         Append(@, [data |-> Encode(Head(send_chan[n]).pack),
                                    from |-> n])]
                 ELSE socket
    /\ sent' = [sent EXCEPT ![n] = Append(@, Head(send_chan[n]))]
    /\ UNCHANGED <<read, delivered>>
    /\ UNCHANGED <<tableVars, kad, cmd_chan, recver, worker, sender, owner,
                   enqueued, handled, queued, injected>>

\* Mutant of SenderEnds: the sender ends as soon as the worker is gone,
\* with pairs still on the channel.
SenderEndsEarly(n) ==
    /\ sender[n] = "recv"
    /\ WorkerGone(n)
    /\ sender' = [sender EXCEPT ![n] = "done"]
    /\ UNCHANGED <<read, delivered, sent>>
    /\ UNCHANGED <<tableVars, kad, cmd_chan, send_chan, socket, recver, worker,
                   owner, enqueued, handled, queued, injected>>

\* send_rx.recv fails once the channel is empty and kad is dropped
\* (lib.rs:46, 52).
SenderEnds(n) ==
    /\ sender[n] = "recv"
    /\ send_chan[n] = <<>>
    /\ WorkerGone(n)
    /\ sender' = [sender EXCEPT ![n] = "done"]
    /\ UNCHANGED <<read, delivered, sent>>
    /\ UNCHANGED <<tableVars, kad, cmd_chan, send_chan, socket, recver, worker,
                   owner, enqueued, handled, queued, injected>>

\* The datagrams an outsider sends to node n: a Ping or a Pong with the id
\* of a stranger or with n's own id, or a truncated datagram.
OutsideData(n) ==
    {Encode(MkPacket(id, 1, payload)) :
        id \in {StrangerID, kad[n].id}, payload \in {"Ping", "Pong"}}
    \cup {<<>>}

Inject(n) ==
    /\ injected < MaxInject
    /\ injected' = injected + 1
    /\ \E data \in OutsideData(n) :
          socket' = [socket EXCEPT ![n] =
                        Append(@, [data |-> data, from |-> Outsider])]
    /\ UNCHANGED <<read, delivered, sent>>
    /\ UNCHANGED <<tableVars, kad, cmd_chan, send_chan, recver, worker, sender,
                   owner, enqueued, handled, queued>>

\* The threads of node n.
Threads(n) ==
    \/ WorkerCommand(n)
    \/ WorkerPacket(n)
    \/ ReceiverRecv(n)
    \/ ReceiverEnds(n)
    \/ SenderSend(n)
    \/ SenderEnds(n)

\* The node under study, whose owner bootstraps and shuts down and which
\* outsiders send to; the other node's owner leaves it running, so it only
\* answers.
Studied == {"a1"}

NextNodes ==
    \/ \E n \in Studied :
            \/ \E peer \in Nodes : Bootstrap(n, peer)
            \/ ShutdownSend(n)
            \/ JoinWorker(n)
            \/ JoinSender(n)
            \/ Inject(n)
    \/ \E n \in Nodes : Threads(n)

SpecNodes == InitNodes /\ [][NextNodes]_vars

\* Every thread that can take a step eventually takes one; select picks
\* among its ready channels at random, so neither is starved.
ThreadsFair ==
    \A n \in Nodes :
        /\ WF_vars(WorkerCommand(n))
        /\ WF_vars(WorkerPacket(n))
        /\ WF_vars(ReceiverRecv(n))
        /\ WF_vars(ReceiverEnds(n))
        /\ WF_vars(SenderSend(n))
        /\ WF_vars(SenderEnds(n))
        /\ WF_vars(JoinWorker(n))
        /\ WF_vars(JoinSender(n))

SpecNodesFair == SpecNodes /\ ThreadsFair

\* The ping exchange alone: owners only bootstrap with the other node's
\* address, nobody shuts down, no outsider sends.
NextPing ==
    \E n \in Nodes :
        \/ \E peer \in Nodes \ {n} : Bootstrap(n, peer)
        \/ Threads(n)

SpecPing == InitNodes /\ [][NextPing]_vars

----------------------------------------------------------------------------
\* Vocabulary of the statements about the routing table.

\* An insert call has been made.
Called == arg # NoContact

\* The bucket of `tbl` responsible for the distance class of `id`.
BucketFor(tbl, id) == tbl.k_buckets[tbl.indices[Class(me, id)] + 1]

\* The bucket of the table that the last call found responsible for its contact.
ArgBucket == BucketFor(before, arg.id)

\* The contacts of `cs` other than the one with id `id`, in order.
Others(cs, id) == SelectSeq(cs, LAMBDA c : c.id # id)

\* The least n with 2^n >= x.
RECURSIVE CeilLog2From(_, _)
CeilLog2From(x, n) == IF 2 ^ n >= x THEN n ELSE CeilLog2From(x, n + 1)

CeilLog2(x) == CeilLog2From(x, 0)

\* The bucket count the comment of kbucket.rs:86 gives, for general K and
\* KEY_BITS: 253 = 256 - 5 + 2 for K = 20, KEY_BITS = 256.
MaxBuckets == KEY_BITS - CeilLog2(K + 2) + 2

\* C4: every id whose insert returned Ok is still stored, in the bucket the
\* index array maps its distance class to; no insert removes a contact.
C4_AcceptedStay ==
    \A id \in accepted : id \in StoredIn(BucketFor(known_peers, id))

\* C4 witness: more than K contacts accepted and at least two splits done.
C4_Witness ==
    /\ known_peers.next_to_split >= 2
    /\ Cardinality(accepted) > K
    /\ Stored(before) # Stored(known_peers)

\* C5: inserting an id that is already stored returns Ok, keeps the bucket
\* count and every bucket's length, makes the contact the last of its
\* bucket and keeps the order of the bucket's other contacts.
C5_ReinsertMovesToBack ==
    (Called /\ arg.id \in Stored(before)) =>
        LET j    == before.indices[Class(me, arg.id)] + 1
            pre  == before.k_buckets[j].contacts
            post == known_peers.k_buckets[j].contacts
        IN  /\ ret = Ok
            /\ Len(known_peers.k_buckets) = Len(before.k_buckets)
            /\ \A b \in 1..Len(before.k_buckets) :
                   Len(known_peers.k_buckets[b].contacts) =
                       Len(before.k_buckets[b].contacts)
            /\ post[Len(post)].id = arg.id
            /\ Others(post, arg.id) = Others(pre, arg.id)

\* C5 witness: the front contact of a full bucket was inserted again.
C5_Witness ==
    /\ Called
    /\ Len(ArgBucket.contacts) = K
    /\ ArgBucket.contacts[1].id = arg.id
    /\ ret = Ok

\* The case of C7: the responsible bucket is full, cannot split and does not
\* hold the id.
C7_Case ==
    /\ Called
    /\ Len(ArgBucket.contacts) = K
    /\ ~ArgBucket.can_split
    /\ arg.id \notin StoredIn(ArgBucket)

\* C7: in that case insert returns Err with the bucket's front contact and
\* leaves the whole table as it was.
C7_FullBucketRejects ==
    C7_Case => /\ ret = Err(ArgBucket.contacts[1])
               /\ known_peers = before

\* C7 witness: the case has happened, with an older and a younger contact
\* in the bucket.
C7_Witness ==
    /\ C7_Case
    /\ ret.tag = "Err"
    /\ K > 1

\* The case of C9: the split-eligible bucket is full of contacts nearer than
\* the class next_to_split and the new contact is of class next_to_split.
C9_Case ==
    /\ Called
    /\ before.k_buckets[1].can_split
    /\ Len(before.k_buckets[1].contacts) = K
    /\ \A id \in StoredIn(before.k_buckets[1]) :
           Class(me, id) > before.next_to_split
    /\ Class(me, arg.id) = before.next_to_split

\* C9: in that case exactly one split happens, the bucket count rises by
\* one, the new contact is alone in the bucket of its class, the K earlier
\* contacts stay together in the split-eligible bucket, and insert returns Ok.
C9_NearBucketSplitsOnce ==
    C9_Case =>
        /\ ret = Ok
        /\ known_peers.next_to_split = before.next_to_split + 1
        /\ Len(known_peers.k_buckets) = Len(before.k_buckets) + 1
        /\ BucketFor(known_peers, arg.id).contacts = <<arg>>
        /\ ~BucketFor(known_peers, arg.id).can_split
        /\ known_peers.k_buckets[1].can_split
        /\ known_peers.k_buckets[1].contacts = before.k_buckets[1].contacts

\* C9 witness: the case has happened on a table of a single bucket.
C9_Witness ==
    /\ C9_Case
    /\ Len(before.k_buckets) = 1
    /\ ret = Ok

\* C10: the bucket count never exceeds MaxBuckets (253 for the program's K
\* and KEY_BITS), next_to_split never exceeds MaxBuckets - 1, and every
\* entry of the index array is the untruncated position of a bucket.
C10_BucketCountBounded ==
    /\ Len(known_peers.k_buckets) <= MaxBuckets
    /\ known_peers.next_to_split <= MaxBuckets - 1
    /\ Len(known_peers.k_buckets) - 1 < U8_RANGE
    /\ \A c \in 0..(KEY_BITS - 1) :
           known_peers.indices[c] < Len(known_peers.k_buckets)

\* C10 witness: the bound is reached.
C10_Witness ==
    /\ Len(known_peers.k_buckets) = MaxBuckets
    /\ known_peers.next_to_split = MaxBuckets - 1

\* C6 (as claimed): after an insert of an id that was already stored, the
\* table's entry for that id carries the address given in that insert.
C6_LastAddressWins ==
    (Called /\ arg.id \in Stored(before) /\ ret = Ok) =>
        \A i \in 1..Len(BucketFor(known_peers, arg.id).contacts) :
            BucketFor(known_peers, arg.id).contacts[i].id = arg.id =>
                BucketFor(known_peers, arg.id).contacts[i].addr = arg.addr

\* The first accepted of the ids of `ids` (which holds an accepted id).
FirstInserted(ids) ==
    first_in[CHOOSE i \in 1..Len(first_in) :
                /\ first_in[i] \in ids
                /\ \A j \in 1..(i - 1) : first_in[j] \notin ids]

\* The case of C8: the split-eligible bucket holds K contacts, all of class
\* next_to_split, and a further contact of that class is inserted.
C8_Case ==
    /\ Called
    /\ before.k_buckets[1].can_split
    /\ Len(before.k_buckets[1].contacts) = K
    /\ \A id \in StoredIn(before.k_buckets[1]) :
           Class(me, id) = before.next_to_split
    /\ Class(me, arg.id) = before.next_to_split
    /\ arg.id \notin StoredIn(before.k_buckets[1])

\* What C8 says of the table: one split, the K contacts in the new bucket of
\* their class, which cannot split, and the split-eligible bucket empty.
C8_OneSplit ==
    /\ known_peers.next_to_split = before.next_to_split + 1
    /\ Len(known_peers.k_buckets) = Len(before.k_buckets) + 1
    /\ BucketFor(known_peers, arg.id).contacts = before.k_buckets[1].contacts
    /\ ~BucketFor(known_peers, arg.id).can_split
    /\ known_peers.k_buckets[1].can_split
    /\ known_peers.k_buckets[1].contacts = <<>>

\* C8 (as claimed): in that case insert splits once and returns Err with the
\* first-inserted of the K contacts.
C8_ReturnsFirstInserted ==
    C8_Case =>
        /\ C8_OneSplit
        /\ ret.tag = "Err"
        /\ ret.contact.id = FirstInserted(StoredIn(before.k_buckets[1]))

\* C8 (amended): in that case insert splits once and returns Err with the
\* front, least recently seen, of the K contacts.
C8_ReturnsLeastRecentlySeen ==
    C8_Case =>
        /\ C8_OneSplit
        /\ ret = Err(before.k_buckets[1].contacts[1])

\* C8 witness: the case has happened after one of the K contacts was
\* inserted a second time.
C8_Witness ==
    /\ C8_Case
    /\ ret.tag = "Err"
    /\ calls > K + 1

----------------------------------------------------------------------------
\* Statements about the nodes.

\* The positions of `tag` commands in a sequence of commands.
Positions(cmds, tag) == {i \in 1..Len(cmds) : cmds[i].tag = tag}

\* `short` is an initial part of `long`.
IsPrefix(short, long) ==
    /\ Len(short) <= Len(long)
    /\ \A i \in 1..Len(short) : short[i] = long[i]

\* The target addresses of the Ping packets n's worker put on the outbound
\* channel for commands, and of the Ping commands it handled, in order.
PingPacket(q) == q.pack.payload = "Ping"
PingCommand(c) == c.tag = "Ping"
PingsQueued(n) ==
    [i \in 1..Len(SelectSeq(queued[n], PingPacket)) |->
        SelectSeq(queued[n], PingPacket)[i].peer]
PingsHandled(n) ==
    [i \in 1..Len(SelectSeq(handled[n], PingCommand)) |->
        SelectSeq(handled[n], PingCommand)[i].peer]

\* C1 (as claimed): shutdown never fails, and once the owner has sent
\* Shutdown and waits for the worker, the worker ends, the sender ends
\* after it, and shutdown returns.
C1_ShutdownCompletes ==
    /\ [](\A n \in Nodes : owner[n] # "panicked")
    /\ [](\A n \in Nodes : sender[n] = "done" => worker[n] = "done")
    /\ \A n \in Nodes :
          (owner[n] = "join_worker") ~>
              (worker[n] = "done" /\ sender[n] = "done" /\ owner[n] = "returned")

\* C2 (as claimed): commands are handled in the order they were enqueued;
\* when the worker has ended, every Ping enqueued before Shutdown has been
\* handled; each handled Ping put one Ping packet on the outbound channel,
\* in order; nothing is handled after Shutdown.
C2_CommandsBeforeShutdown ==
    \A n \in Nodes :
        /\ IsPrefix(handled[n], enqueued[n])
        /\ worker[n] = "done" =>
              \A i \in Positions(enqueued[n], "Shutdown") : Len(handled[n]) >= i
        /\ PingsQueued(n) = PingsHandled(n)
        /\ \A i \in Positions(handled[n], "Shutdown") : i = Len(handled[n])

\* Ids stored in n's routing table.
Contacts(n) == Stored(kad[n].known_peers)

\* Nothing is in flight: every channel and socket is empty and no receiver
\* holds a packet.
Quiet ==
    \A n \in Nodes :
        /\ cmd_chan[n] = <<>>
        /\ send_chan[n] = <<>>
        /\ socket[n] = <<>>
        /\ recver[n].at # "send"

\* C3 (as claimed): when node a was given only Ping(b's address), node b was
\* given no command and everything sent has been handled, each of the two
\* routing tables holds exactly the other node.
C3_PingExchange ==
    \A a, b \in Nodes :
        (/\ a # b
         /\ enqueued[a] = <<Ping(b)>>
         /\ enqueued[b] = <<>>
         /\ Quiet)
        => /\ Contacts(a) = {kad[b].id}
           /\ Contacts(b) = {kad[a].id}


\* The Pong the engine owes for a pair (Ping packet, source) taken by node n.
PongFor(n, d) ==
    [pack |-> MkPacket(kad[n].id, d.pack.seq_num, "Pong"), peer |-> d.peer]

PongPacket(q) == q.pack.payload = "Pong"

\* The Pongs node n put on its outbound channel, and the Pongs owed for the
\* Pings its worker took, in order.
PongsQueued(n) == SelectSeq(queued[n], PongPacket)
PongsOwed(n) ==
    [i \in 1..Len(SelectSeq(delivered[n], PingPacket)) |->
        PongFor(n, SelectSeq(delivered[n], PingPacket)[i])]

\* C11 (as claimed): for every inbound Ping the worker handled, exactly one
\* Pong to its source with its sequence number and the node's own id was put
\* on the outbound channel, whatever the insert of the sender did, and no
\* Pong was put there for any inbound Pong.
C11_PingAnsweredByOnePong ==
    \A n \in Nodes : PongsQueued(n) = PongsOwed(n)


\* The datagrams node n's receiver read that decode, as (packet, source)
\* pairs in the order they were read.
Readable(d) == Decodes(d.data)
Decoded(n) ==
    [i \in 1..Len(SelectSeq(read[n], Readable)) |->
        [pack |-> Decode(SelectSeq(read[n], Readable)[i].data),
         peer |-> SelectSeq(read[n], Readable)[i].from]]

\* The packet node n's receiver holds for the capacity-0 channel, if any.
Held(n) ==
    IF recver[n].at = "send"
    THEN <<[pack |-> recver[n].pack, peer |-> recver[n].peer]>>
    ELSE <<>>

\* C12: the packets the worker took are the first of the decoded datagrams,
\* in the order read, with at most one decoded packet not yet taken; while
\* the worker runs that one is the packet the receiver holds, so none is
\* dropped or duplicated, and the receiver has not stopped, whatever
\* undecodable datagrams it read.
C12_PacketsHandledInReadOrder ==
    \A n \in Nodes :
        /\ IsPrefix(delivered[n], Decoded(n))
        /\ Len(Decoded(n)) - Len(delivered[n]) <= 1
        /\ ~WorkerGone(n) =>
              /\ Decoded(n) = delivered[n] \o Held(n)
              /\ recver[n].at # "done"

\* The receiver read an undecodable datagram and then a packet, which the
\* still running worker has taken.
C12_Witness ==
    \E n \in Nodes :
        /\ ~WorkerGone(n)
        /\ Len(read[n]) = 2
        /\ ~Readable(read[n][1])
        /\ Len(delivered[n]) = 1


----------------------------------------------------------------------------
\* Statements about the shape of the routing table.

\* The positions, counted from 0 as in the code, of the buckets of `tbl`
\* that may split.
SplitEligible(tbl) ==
    {j \in 0..(Len(tbl.k_buckets) - 1) : tbl.k_buckets[j + 1].can_split}

\* The distance classes.
Classes == 0..(KEY_BITS - 1)

\* C13: exactly one bucket may split and it is at position 0; the index
\* entries of the classes >= next_to_split are 0, and the entries of the
\* classes < next_to_split point to pairwise distinct buckets that exist
\* and cannot split.
C13_OneSplitEligibleBucket ==
    /\ SplitEligible(known_peers) = {0}
    /\ \A c \in Classes :
          (c >= known_peers.next_to_split) <=> (known_peers.indices[c] = 0)
    /\ \A c \in Classes :
          c < known_peers.next_to_split =>
              /\ known_peers.indices[c] \in 1..(Len(known_peers.k_buckets) - 1)
              /\ ~known_peers.k_buckets[known_peers.indices[c] + 1].can_split
    /\ \A c, d \in Classes :
          (c < d /\ d < known_peers.next_to_split) =>
              known_peers.indices[c] # known_peers.indices[d]

\* The table has split as often as it can, the last time in the call just
\* made.
C13_Witness ==
    /\ Called
    /\ known_peers.next_to_split = MaxBuckets - 1
    /\ before.next_to_split < MaxBuckets - 1
    /\ Len(known_peers.k_buckets) = MaxBuckets


\* The statement-by-statement run of insert agrees with insert as a whole.
StepsAgree ==
    (pc = "idle" /\ Called) =>
        /\ known_peers = insert(before, me, arg).table
        /\ ret = insert(before, me, arg).ret


\* C14: whenever the index array can be read, between calls, at the lookup
\* and before each re-insertion in the middle of a split, every distance
\* class maps to a bucket that exists, and no lookup has been out of bounds.
C14_IndicesInBounds ==
    /\ \A c \in Classes : InBounds(known_peers, c)
    /\ ret # IndexPanic

\* In the middle of the second split of one call, with contacts still to be
\* re-inserted.
C14_Witness ==
    /\ pc = "drain"
    /\ old_bucket # <<>>
    /\ splits = MaxBuckets - 1
    /\ Len(known_peers.k_buckets) = MaxBuckets

\* C15: no bucket holds more than K contacts, in the middle of a split and
\* right after the redistribution as well as between calls.
C15_BucketsWithinCapacity ==
    \A j \in 1..Len(known_peers.k_buckets) :
        Len(known_peers.k_buckets[j].contacts) <= K

\* Right after a redistribution that put all K old contacts in one bucket.
C15_Witness ==
    /\ pc = "drain"
    /\ old_bucket = <<>>
    /\ \E j \in 1..Len(known_peers.k_buckets) :
          Len(known_peers.k_buckets[j].contacts) = K

\* The most splits one insert call can make: one for each class at which
\* bucket 0 can be full without holding the new contact.
MaxSplits == MaxBuckets - 1

\* C16: every insert call returns, with Ok or Err; while it runs each split
\* has advanced next_to_split by one, and there are at most MaxSplits of
\* them (252 for K = 20, KEY_BITS = 256).
C16_InsertTerminates ==
    /\ [](splits <= MaxSplits)
    /\ [](known_peers.next_to_split = before.next_to_split + splits
            \/ (pc = "idle" /\ ~Called))
    /\ (pc # "idle") ~> (pc = "idle" /\ ret.tag \in {"Ok", "Err"})

\* A call that split MaxSplits times has returned.
C16_Witness ==
    /\ pc = "idle"
    /\ splits = MaxSplits
    /\ ret.tag \in {"Ok", "Err"}


----------------------------------------------------------------------------
\* Further statements about the nodes.

\* C17 (as claimed): handling an inbound packet never ends the worker by a
\* failed assertion, also when packets that carry the node's own id have
\* been taken, and the node's own id is never stored in its table.
C17_OwnIdRejected ==
    \A n \in Nodes :
        /\ worker[n] # "panicked"
        /\ kad[n].id \notin Contacts(n)

\* C18: what the sender has sent is what was put on the outbound channel, in
\* that order and once each, less what still waits there; the sender has
\* ended only with the channel empty and the worker, with its Kad, gone, so
\* by then everything the worker queued has been sent.
C18_SenderSendsAllInOrder ==
    \A n \in Nodes :
        /\ sent[n] \o send_chan[n] = queued[n]
        /\ sender[n] = "done" =>
              /\ WorkerGone(n)
              /\ send_chan[n] = <<>>
              /\ sent[n] = queued[n]

\* A sender has ended after sending a Pong and then a Ping.
C18_Witness ==
    \E n \in Nodes :
        /\ sender[n] = "done"
        /\ Len(sent[n]) = 2
        /\ sent[n][1].pack.payload = "Pong"
        /\ sent[n][2].pack.payload = "Ping"


----------------------------------------------------------------------------
\* Further statements about the routing table.

\* The ids of the contacts of bucket b, in the order they are stored.
IdsOf(b) == [i \in 1..Len(b.contacts) |-> b.contacts[i].id]

\* C19: no id is stored twice, in one bucket or in two, and every stored
\* contact is in the bucket the index array maps its distance class to.
C19_StoredOnceInOwnBucket ==
    /\ \A j \in 1..Len(known_peers.k_buckets) :
          \A i, h \in 1..Len(known_peers.k_buckets[j].contacts) :
              i # h => IdsOf(known_peers.k_buckets[j])[i]
                          # IdsOf(known_peers.k_buckets[j])[h]
    /\ \A j, l \in 1..Len(known_peers.k_buckets) :
          j # l => StoredIn(known_peers.k_buckets[j])
                      \cap StoredIn(known_peers.k_buckets[l]) = {}
    /\ \A j \in 1..Len(known_peers.k_buckets) :
          \A id \in StoredIn(known_peers.k_buckets[j]) :
              known_peers.indices[Class(me, id)] + 1 = j

\* A call has split the table and its contacts lie in more than one bucket.
C19_Witness ==
    /\ Called
    /\ Len(known_peers.k_buckets) > Len(before.k_buckets)
    /\ \E j, l \in 1..Len(known_peers.k_buckets) :
          /\ j # l
          /\ known_peers.k_buckets[j].contacts # <<>>
          /\ known_peers.k_buckets[l].contacts # <<>>

\* The position of id in the order of last acceptance.
SeenAt(id) == CHOOSE i \in 1..Len(seen_order) : seen_order[i] = id

\* The contacts of bucket b lie oldest-seen first.
OldestFirst(b) ==
    \A i, h \in 1..Len(b.contacts) :
        i < h => SeenAt(b.contacts[i].id) < SeenAt(b.contacts[h].id)

\* The position of id in the bucket b that holds it.
PlaceIn(b, id) == CHOOSE i \in 1..Len(b.contacts) : b.contacts[i].id = id

\* C20: two contacts of the bucket that was at position 0 before the call,
\* neither the one inserted, that are in one bucket after the call keep
\* their order; every bucket lies oldest-seen first; and the contact a
\* failure carries is the front, least recently seen, of the bucket now
\* responsible for the inserted contact.
C20_SplitKeepsRecencyOrder ==
    /\ \A j \in 1..Len(known_peers.k_buckets) :
          \A x, y \in (StoredIn(before.k_buckets[1])
                          \cap StoredIn(known_peers.k_buckets[j])) \ {arg.id} :
              (PlaceIn(before.k_buckets[1], x) < PlaceIn(before.k_buckets[1], y))
              => (PlaceIn(known_peers.k_buckets[j], x)
                      < PlaceIn(known_peers.k_buckets[j], y))
    /\ \A j \in 1..Len(known_peers.k_buckets) :
          OldestFirst(known_peers.k_buckets[j])
    /\ ret.tag = "Err" =>
          /\ ret.contact = BucketFor(known_peers, arg.id).contacts[1]
          /\ \A id \in StoredIn(BucketFor(known_peers, arg.id)) :
                SeenAt(ret.contact.id) <= SeenAt(id)

\* A call split a bucket whose contacts were not in the order of their
\* first insertion, and failed with the least recently seen of them.
C20_Witness ==
    /\ Len(known_peers.k_buckets) > Len(before.k_buckets)
    /\ ret.tag = "Err"
    /\ seen_order # first_in
    /\ IdsOf(before.k_buckets[1]) # first_in
    /\ IdsOf(BucketFor(known_peers, arg.id)) = IdsOf(before.k_buckets[1])

====
